---- MODULE Spec2Model ----
(***************************************************************************)
(* Weighted-sum enrichment with a permutation null (decoupler_gpu,         *)
(* _method_wsum.py): the permutation engine run_perm and its batching      *)
(* driver wsum, modelled as a state machine.  One behaviour is a caller    *)
(* that holds a sample-by-feature matrix M and a network net and calls     *)
(* wsum on M, or on a contiguous row block of M, up to MaxRuns times.      *)
(*                                                                         *)
(* Arrays are functions over 0-based index ranges.  Values are small       *)
(* integers, so every sum and product of the code is exact.  The real      *)
(* valued outputs are kept in exact canonical forms:                       *)
(*   pvals  a reduced fraction <<num, den>>,                               *)
(*   norm   NaN, +inf, -inf or the sign and the reduced square of the      *)
(*          quotient (estimate - mean) / sqrt(variance),                   *)
(*   corr   the reduced rational p^estimate, whose -log10 is the score.    *)
(* The random generator is a deterministic function of the seed and of the *)
(* number of draws since seeding; which function it is, is not fixed: the  *)
(* table gen is filled on first use and read afterwards.                   *)
(***************************************************************************)
EXTENDS Integers, Sequences, FiniteSets, TLC

\* ---- bounds of the model ------------------------------------------------
NSamples == 2
NFeatures == 2
NFsets == 1
MaxT == 4
MaxBatch == 2
MaxRuns == 2

\* run_wsum's default seed; the generator table is arbitrary, so one seed
\* value stands for any.
seed == 42

MatVals == {0, 1}
NetVals == {-1, 0, 1}

Features == 0 .. NFeatures - 1
Fsets == 0 .. NFsets - 1

\* Python's None, and a local name that is not bound.
None == <<>>
Unbound == <<>>
\* The generator before any cp.random.seed call.
NoSeed == -1

VARIABLES
    M, net, times,              \* the caller's data and permutation count
    off, n_samples, sparse, batch_size,   \* this call: mat = M[off : off + n_samples]
    run, prev,                  \* calls made so far; the previous call and its result
    pc,                         \* position in wsum / run_perm
    rng, gen,                   \* generator state <<seed, draws>>; the generator's table
    idxs,                       \* the index buffer of wsum
    estimate, norm, corr, pvals,             \* wsum's output arrays
    n_batches, i, srt, end,                  \* wsum's batch loop
    perm_i, rp_pvals, sum_permuted, sum_squares_permuted,  \* run_perm's loop
    shuffled,                   \* idxs after each shuffle of this engine invocation
    batches                     \* the engine invocations / products finished by this call

vars == <<M, net, times, off, n_samples, sparse, batch_size, run, prev, pc, rng, gen,
          idxs, estimate, norm, corr, pvals, n_batches, i, srt, end,
          perm_i, rp_pvals, sum_permuted, sum_squares_permuted, shuffled, batches>>

\* ---- arithmetic helpers -------------------------------------------------
Abs(x) == IF x < 0 THEN -x ELSE x

Min(a, b) == IF a <= b THEN a ELSE b

RECURSIVE Gcd(_, _)
Gcd(a, b) == IF b = 0 THEN a ELSE Gcd(b, a % b)

\* a/b in lowest terms, a >= 0, b > 0
Frac(a, b) == LET g == Gcd(a, b) IN <<a \div g, b \div g>>

RECURSIVE Pow(_, _)
Pow(b, e) == IF e = 0 THEN 1 ELSE b * Pow(b, e - 1)

\* Ceil as the floor division a // b
Ceil_Floor(a, b) == a \div b

\* int(np.ceil(a / b)), b >= 1
Ceil(a, b) == (a + b - 1) \div b

\* ---- array helpers ------------------------------------------------------
RECURSIVE SumTo(_, _)
\* g[0] + ... + g[n-1]
SumTo(g, n) == IF n = 0 THEN 0 ELSE SumTo(g, n - 1) + g[n - 1]

\* row x of a matrix times column j of the weight matrix w
RowDot(x, w, j) == SumTo([f \in Features |-> x[f] * w[f][j]], NFeatures)

\* m.dot(w)
Dot(m, w) == [r \in DOMAIN m |-> [j \in Fsets |-> RowDot(m[r], w, j)]]

\* w[ix]: the rows of w taken in the order of the index array ix
Take(w, ix) == [f \in Features |-> w[ix[f]]]

\* np.zeros((n, n_fsets))
Zeros(n) == [r \in 0 .. n - 1 |-> [j \in Fsets |-> 0]]

\* cp.arange(n_features)
Arange == [f \in Features |-> f]

\* a[lo:hi] of an array of length len(a): Python clamps the slice
Slice(a, lo, hi) ==
    LET n == Cardinality(DOMAIN a)
        h == Min(hi, n)
    IN  [r \in 0 .. h - lo - 1 |-> a[lo + r]]

\* a[lo:hi] = b
SetSlice(a, lo, b) ==
    [r \in DOMAIN a |-> IF r - lo \in DOMAIN b THEN b[r - lo] ELSE a[r]]

Perms == {p \in [Features -> Features] : \A f, g \in Features : p[f] = p[g] => f = g}

\* ---- the call's matrix --------------------------------------------------
mat == [r \in 0 .. n_samples - 1 |-> M[off + r]]

\* tmp of wsum's loop body: the dense block of the batch
tmp == Slice(mat, srt, end)

\* rp_estimate taken from the shuffled network
rp_estimate_Shuffled == Dot(tmp, [f \in Features |-> net[idxs[f]]])

\* estimate of run_perm
rp_estimate == Dot(tmp, net)

Blocks == {b \in (0 .. NSamples - 1) \X (1 .. NSamples) : b[1] + b[2] <= NSamples}

\* run_wsum's default batch size; the dense path never reads batch_size
default_batch_size == 10000

\* the calls the caller makes: <<block, sparse, batch_size>>
Calls ==
    (Blocks \X {TRUE} \X (1 .. MaxBatch)) \cup (Blocks \X {FALSE} \X {default_batch_size})

\* the first call is on the whole of M
FirstCalls == {c \in Calls : c[1] = <<0, NSamples>>}

\* ---- run_perm's statistics ----------------------------------------------
\* PValue without line 33: a count of 0 is kept
PValue_NoFloor(c, T) ==
    LET c2 == IF c = T THEN T - 1 ELSE c
        fold == IF 2 * c2 >= T THEN T - c2 ELSE c2
    IN  Frac(2 * fold, T)

\* PValue without line 34: a count of T is kept
PValue_NoCap(c, T) ==
    LET c1 == IF c = 0 THEN 1 ELSE c
        fold == IF 2 * c1 >= T THEN T - c1 ELSE c1
    IN  Frac(2 * fold, T)

\* lines 33-37: the empirical two-sided p-value of an exceedance count c
PValue(c, T) ==
    LET c1 == IF c = 0 THEN 1 ELSE c
        c2 == IF c1 = T THEN T - 1 ELSE c1
        fold == IF 2 * c2 >= T THEN T - c2 ELSE c2
    IN  Frac(2 * fold, T)

\* lines 40-45: (estimate - mean) / sqrt(sum_squares/T - mean^2 * T/(T-1)).
\* T*(T-1)*variance = (T-1)*sq - s^2 and T*(estimate - mean) = T*e - s.
Variance(s, sq, T) == (T - 1) * sq - s * s

Norm(e, s, sq, T) ==
    LET w == Variance(s, sq, T)
        d == T * e - s
    IN  IF w < 0 THEN <<"nan">>
        ELSE IF w = 0 THEN (IF d = 0 THEN <<"nan">>
                            ELSE IF d > 0 THEN <<"inf">> ELSE <<"-inf">>)
        ELSE IF d = 0 THEN <<"fin", 0, <<0, 1>>>>
        ELSE <<"fin", IF d > 0 THEN 1 ELSE -1, Frac(d * d * (T - 1), T * w)>>

\* line 47: estimate * -log10(p) = -log10(p^estimate), p = <<a, b>> reduced
Corr(e, p) ==
    IF e >= 0 THEN <<Pow(p[1], e), Pow(p[2], e)>>
    ELSE <<Pow(p[2], -e), Pow(p[1], -e)>>

\* ---- Init ---------------------------------------------------------------
Init ==
    /\ M \in [0 .. NSamples - 1 -> [Features -> MatVals]]
    /\ net \in [Features -> [Fsets -> NetVals]]
    /\ times \in 0 .. MaxT
    /\ \E c \in FirstCalls :
          /\ off = c[1][1]
          /\ n_samples = c[1][2]
          /\ sparse = c[2]
          /\ batch_size = c[3]
    /\ run = 1
    /\ prev = None
    /\ pc = "start"
    /\ rng = <<NoSeed, 0>>
    /\ gen = <<>>
    /\ idxs = Unbound
    /\ estimate = Unbound /\ norm = Unbound /\ corr = Unbound /\ pvals = Unbound
    /\ n_batches = 0 /\ i = 0 /\ srt = 0 /\ end = 0
    /\ perm_i = 0
    /\ rp_pvals = Unbound /\ sum_permuted = Unbound /\ sum_squares_permuted = Unbound
    /\ shuffled = <<>>
    /\ batches = <<>>

caller == <<M, net, times, off, n_samples, sparse, batch_size, run, prev>>
engine == <<perm_i, rp_pvals, sum_permuted, sum_squares_permuted, shuffled>>
outputs == <<estimate, norm, corr, pvals>>

\* one finished batch (or the single dense invocation): the row range it
\* wrote, its exceedance counts before the boundary correction, and the
\* contents of idxs it used, in order
Batch(s, e, c, sh) == [srt |-> s, end |-> e, counts |-> c, shuffled |-> sh]

\* ---- wsum ---------------------------------------------------------------
\* WsumInit allocating the permutation outputs and the buffer from times = 1 on
WsumInit_FromOne ==
    /\ pc = "start"
    /\ estimate' = Zeros(n_samples)
    /\ IF times >= 1
       THEN /\ norm' = Zeros(n_samples)
            /\ corr' = Zeros(n_samples)
            /\ pvals' = Zeros(n_samples)
            /\ idxs' = Arange
       ELSE /\ norm' = None /\ corr' = None /\ pvals' = None
            /\ UNCHANGED idxs
    /\ IF sparse
       THEN /\ n_batches' = Ceil(n_samples, batch_size)
            /\ pc' = "loop"
       ELSE /\ UNCHANGED n_batches
            /\ pc' = "dense"
    /\ i' = 0
    /\ UNCHANGED <<caller, rng, gen, srt, end, engine, batches>>

\* lines 58-72: allocate the outputs, the index buffer when times > 1, and
\* dispatch on the kind of mat
WsumInit ==
    /\ pc = "start"
    /\ estimate' = Zeros(n_samples)
    /\ IF times > 1
       THEN /\ norm' = Zeros(n_samples)
            /\ corr' = Zeros(n_samples)
            /\ pvals' = Zeros(n_samples)
            /\ idxs' = Arange
       ELSE /\ norm' = None /\ corr' = None /\ pvals' = None
            /\ UNCHANGED idxs
    /\ IF sparse
       THEN /\ n_batches' = Ceil(n_samples, batch_size)
            /\ pc' = "loop"
       ELSE /\ UNCHANGED n_batches
            /\ pc' = "dense"
    /\ i' = 0
    /\ UNCHANGED <<caller, rng, gen, srt, end, engine, batches>>

\* RunPermEntry without line 18: the generator goes on from where it is
RunPermEntry_NoSeed ==
    /\ rng' = rng
    /\ perm_i' = 0
    /\ shuffled' = <<>>

\* lines 17-23: the entry of run_perm, up to its loop
RunPermEntry ==
    /\ rng' = <<seed, 0>>
    /\ perm_i' = 0
    /\ shuffled' = <<>>

\* BatchPerm handing every batch a fresh index buffer
BatchPerm_FreshIdxs ==
    /\ pc = "loop" /\ i < n_batches /\ times > 1
    /\ srt' = i * batch_size
    /\ end' = i * batch_size + batch_size
    /\ RunPermEntry
    /\ LET len == Min(end', n_samples) - srt'
       IN  /\ rp_pvals' = Zeros(len)
           /\ sum_permuted' = Zeros(len)
           /\ sum_squares_permuted' = Zeros(len)
    /\ pc' = "perm"
    /\ idxs' = Arange
    /\ UNCHANGED <<caller, gen, outputs, n_batches, i, batches>>

\* lines 73-87, times > 1: subset the batch and enter run_perm
BatchPerm ==
    /\ pc = "loop" /\ i < n_batches /\ times > 1
    /\ srt' = i * batch_size
    /\ end' = i * batch_size + batch_size
    /\ RunPermEntry
    /\ LET len == Min(end', n_samples) - srt'
       IN  /\ rp_pvals' = Zeros(len)
           /\ sum_permuted' = Zeros(len)
           /\ sum_squares_permuted' = Zeros(len)
    /\ pc' = "perm"
    /\ UNCHANGED <<caller, gen, idxs, outputs, n_batches, i, batches>>

\* lines 73-79, 89, times <= 1: the plain product of the batch
BatchPlain ==
    /\ pc = "loop" /\ i < n_batches /\ times <= 1
    /\ srt' = i * batch_size
    /\ end' = i * batch_size + batch_size
    /\ estimate' = SetSlice(estimate, srt', Dot(Slice(mat, srt', end'), net))
    /\ batches' = Append(batches, Batch(srt', Min(end', n_samples), None, <<>>))
    /\ i' = i + 1
    /\ UNCHANGED <<caller, pc, rng, gen, idxs, norm, corr, pvals, n_batches, engine>>

\* line 73 exhausted, line 99
LoopExit ==
    /\ pc = "loop" /\ i >= n_batches
    /\ pc' = "done"
    /\ UNCHANGED <<caller, rng, gen, idxs, outputs, n_batches, i, srt, end, engine, batches>>

\* lines 91-95, times > 1: the whole dense input in one engine invocation
DensePerm ==
    /\ pc = "dense" /\ times > 1
    /\ estimate' = Dot(mat, net)
    /\ srt' = 0
    /\ end' = n_samples
    /\ RunPermEntry
    /\ rp_pvals' = Zeros(n_samples)
    /\ sum_permuted' = Zeros(n_samples)
    /\ sum_squares_permuted' = Zeros(n_samples)
    /\ pc' = "perm"
    /\ UNCHANGED <<caller, gen, idxs, norm, corr, pvals, n_batches, i, batches>>

\* lines 91, 97, 99, times <= 1
DensePlain ==
    /\ pc = "dense" /\ times <= 1
    /\ estimate' = Dot(mat, net)
    /\ batches' = Append(batches, Batch(0, n_samples, None, <<>>))
    /\ pc' = "done"
    /\ UNCHANGED <<caller, rng, gen, idxs, norm, corr, pvals, n_batches, i, srt, end, engine>>

\* ---- run_perm -----------------------------------------------------------
\* ShuffleBy reading one position too far (clamped): an entry is repeated
ShuffleBy_Repeat(a, p) == [f \in Features |-> a[Min(p[f] + 1, NFeatures - 1)]]

\* cp.random.shuffle(a): a[:] = a[p], p the generator's next permutation
ShuffleBy(a, p) == [f \in Features |-> a[p[f]]]

\* lines 25-30: one iteration of the permutation loop
Shuffle ==
    /\ pc = "perm" /\ perm_i < times
    /\ \E p \in Perms :
          /\ IF rng \in DOMAIN gen
             THEN p = gen[rng] /\ UNCHANGED gen
             ELSE gen' = (rng :> p) @@ gen
          /\ idxs' = ShuffleBy(idxs, p)
    /\ rng' = <<rng[1], rng[2] + 1>>
    /\ LET permuted == Dot(tmp, Take(net, idxs'))
           est == rp_estimate
       IN  /\ rp_pvals' = [r \in DOMAIN tmp |-> [j \in Fsets |->
                 rp_pvals[r][j] + IF Abs(permuted[r][j]) > Abs(est[r][j]) THEN 1 ELSE 0]]
           /\ sum_permuted' = [r \in DOMAIN tmp |-> [j \in Fsets |->
                 sum_permuted[r][j] + permuted[r][j]]]
           /\ sum_squares_permuted' = [r \in DOMAIN tmp |-> [j \in Fsets |->
                 sum_squares_permuted[r][j] + permuted[r][j] * permuted[r][j]]]
    /\ shuffled' = Append(shuffled, idxs')
    /\ perm_i' = perm_i + 1
    /\ UNCHANGED <<caller, pc, outputs, n_batches, i, srt, end, batches>>

\* lines 32-53: the four matrices run_perm returns
rp_pvals_return == [r \in DOMAIN tmp |-> [j \in Fsets |-> PValue(rp_pvals[r][j], times)]]

rp_norm_return ==
    [r \in DOMAIN tmp |-> [j \in Fsets |->
        Norm(rp_estimate[r][j], sum_permuted[r][j], sum_squares_permuted[r][j], times)]]

rp_corr_return ==
    [r \in DOMAIN tmp |-> [j \in Fsets |-> Corr(rp_estimate[r][j], rp_pvals_return[r][j])]]

\* PermReturn unpacking norm and corr in the wrong order on the dense path
PermReturn_DenseSwapped ==
    /\ pc = "perm" /\ perm_i >= times
    /\ IF sparse
       THEN /\ estimate' = SetSlice(estimate, srt, rp_estimate)
            /\ norm' = SetSlice(norm, srt, rp_norm_return)
            /\ corr' = SetSlice(corr, srt, rp_corr_return)
            /\ pvals' = SetSlice(pvals, srt, rp_pvals_return)
            /\ i' = i + 1
            /\ pc' = "loop"
       ELSE /\ estimate' = rp_estimate
            /\ norm' = rp_corr_return
            /\ corr' = rp_norm_return
            /\ pvals' = rp_pvals_return
            /\ UNCHANGED i
            /\ pc' = "done"
    /\ batches' = Append(batches, Batch(srt, Min(end, n_samples), rp_pvals, shuffled))
    /\ UNCHANGED <<caller, rng, gen, idxs, n_batches, srt, end, engine>>

\* lines 32-53 and the assignment of the result at lines 82-87 or 93
PermReturn ==
    /\ pc = "perm" /\ perm_i >= times
    /\ IF sparse
       THEN /\ estimate' = SetSlice(estimate, srt, rp_estimate)
            /\ norm' = SetSlice(norm, srt, rp_norm_return)
            /\ corr' = SetSlice(corr, srt, rp_corr_return)
            /\ pvals' = SetSlice(pvals, srt, rp_pvals_return)
            /\ i' = i + 1
            /\ pc' = "loop"
       ELSE /\ estimate' = rp_estimate
            /\ norm' = rp_norm_return
            /\ corr' = rp_corr_return
            /\ pvals' = rp_pvals_return
            /\ UNCHANGED i
            /\ pc' = "done"
    /\ batches' = Append(batches, Batch(srt, Min(end, n_samples), rp_pvals, shuffled))
    /\ UNCHANGED <<caller, rng, gen, idxs, n_batches, srt, end, engine>>

\* ---- the caller ---------------------------------------------------------
\* what a finished call leaves with the caller
Result ==
    [off |-> off, n_samples |-> n_samples, sparse |-> sparse, batch_size |-> batch_size,
     estimate |-> estimate, norm |-> norm, corr |-> corr, pvals |-> pvals,
     batches |-> batches]

\* the caller calls wsum again, on M or on a row block of it; the locals of
\* the finished call are gone, the generator keeps its state
Recall ==
    /\ pc = "done" /\ run < MaxRuns
    /\ prev' = Result
    /\ run' = run + 1
    /\ \E c \in Calls :
          /\ off' = c[1][1]
          /\ n_samples' = c[1][2]
          /\ sparse' = c[2]
          /\ batch_size' = c[3]
    /\ pc' = "start"
    /\ idxs' = Unbound
    /\ estimate' = Unbound /\ norm' = Unbound /\ corr' = Unbound /\ pvals' = Unbound
    /\ n_batches' = 0 /\ i' = 0 /\ srt' = 0 /\ end' = 0
    /\ perm_i' = 0
    /\ rp_pvals' = Unbound /\ sum_permuted' = Unbound /\ sum_squares_permuted' = Unbound
    /\ shuffled' = <<>>
    /\ batches' = <<>>
    /\ UNCHANGED <<M, net, times, rng, gen>>

Next ==
    \/ WsumInit
    \/ BatchPerm
    \/ BatchPlain
    \/ LoopExit
    \/ DensePerm
    \/ DensePlain
    \/ Shuffle
    \/ PermReturn
    \/ Recall

Spec == Init /\ [][Next]_vars

\* =========================================================================
\* Properties
\* =========================================================================
\* the rows of mat a logged batch b covers, as local row numbers
BatchRows(b) == 0 .. b.end - b.srt - 1

\* the permuted statistic of row r of mat, regulon j, under index array ix
PermutedAt(r, j, ix) == RowDot(mat[r], Take(net, ix), j)

\* how many of the index arrays in sh give |permuted| > |estimate| at (r, j)
Exceedances(r, j, sh) ==
    Cardinality({t \in 1 .. Len(sh) :
                    Abs(PermutedAt(r, j, sh[t])) > Abs(RowDot(mat[r], net, j))})

\* c with 0 replaced by 1 and T replaced by T - 1
Corrected(c, T) == IF c = 0 THEN 1 ELSE IF c = T THEN T - 1 ELSE c

IsPermutation(a) ==
    /\ DOMAIN a = Features
    /\ \A f \in Features : \E g \in Features : a[g] = f

\* C1: with times 0 or 1 the generator is never seeded, nothing is drawn or
\* shuffled, no index buffer exists, and a finished call returns None for
\* norm, corr and pvals and the product mat.net for estimate, on the sparse
\* path for every batch and on the dense path.
C1_NoPermutationEngine ==
    times <= 1 =>
        /\ rng = <<NoSeed, 0>>
        /\ gen = <<>>
        /\ idxs = Unbound
        /\ shuffled = <<>>
        /\ pc # "perm"
        /\ \A k \in 1 .. Len(batches) : batches[k].counts = None
        /\ pc \in {"loop", "dense", "done"} => norm = None /\ corr = None /\ pvals = None
        /\ pc = "done" => estimate = Dot(mat, net)

\* a second call with times <= 1 has finished, sparse in two batches, after a dense first call
C1_Witness ==
    /\ times <= 1 /\ run = 2 /\ pc = "done"
    /\ sparse /\ Len(batches) = 2 /\ ~prev.sparse
    /\ \E r \in DOMAIN estimate : estimate[r][0] # 0

\* C2: the estimate a finished call returns is, cell by cell, row r of mat
\* times column j of net, for every times, every batch size and both paths;
\* while the engine shuffles, its estimate stays that product.
C2_EstimateIsProduct ==
    /\ pc = "done" =>
          /\ DOMAIN estimate = 0 .. n_samples - 1
          /\ \A r \in 0 .. n_samples - 1 : \A j \in Fsets :
                estimate[r][j] = SumTo([f \in Features |-> M[off + r][f] * net[f][j]], NFeatures)
    /\ pc = "perm" =>
          \A r \in DOMAIN tmp : \A j \in Fsets :
             rp_estimate[r][j] =
                SumTo([f \in Features |-> M[off + srt + r][f] * net[f][j]], NFeatures)

\* a sparse call of two batches with times >= 2 has finished; the second
\* batch ran on a shuffled buffer and has a non-zero estimate
C2_Witness ==
    /\ pc = "done" /\ times >= 2 /\ sparse /\ Len(batches) = 2
    /\ \E t \in 1 .. times : batches[2].shuffled[t] # Arange
    /\ \E j \in Fsets : estimate[n_samples - 1][j] # 0

\* C3: for every cell an engine invocation has written (times >= 2), with c
\* the number of its times permutations whose absolute permuted value
\* exceeds the absolute estimate, pvals = 2*min(c', T-c')/T for c' the
\* corrected count, and 0 < pvals <= 1.
C3_PValueFormula ==
    times >= 2 =>
        \A k \in 1 .. Len(batches) :
            LET b == batches[k] IN
            /\ Len(b.shuffled) = times
            /\ \A r \in BatchRows(b) : \A j \in Fsets :
                  LET c == Exceedances(b.srt + r, j, b.shuffled)
                      cc == Corrected(c, times)
                      p == pvals[b.srt + r][j]
                  IN  /\ c \in 0 .. times
                      /\ b.counts[r][j] = c
                      /\ p[1] * times = 2 * Min(cc, times - cc) * p[2]
                      /\ 0 < p[1] /\ p[1] <= p[2]

\* an invocation has written one cell no permutation exceeded and one cell
\* every permutation exceeded
C3_Witness ==
    /\ times >= 3 /\ Len(batches) >= 1
    /\ LET b == batches[Len(batches)] IN
          /\ \E r \in BatchRows(b) : \E j \in Fsets : b.counts[r][j] = 0
          /\ \E r \in BatchRows(b) : \E j \in Fsets : b.counts[r][j] = times

\* C4 as stated: every p-value an engine invocation has written is strictly
\* below 1.
C4_Original_BelowOne ==
    times >= 2 =>
        \A k \in 1 .. Len(batches) : \A r \in BatchRows(batches[k]) : \A j \in Fsets :
            LET p == pvals[batches[k].srt + r][j] IN p[1] < p[2]

\* C4 amended: the corrected fraction c'/T is strictly between 0 and 1, the
\* two-sided p-value written is at most 1, and it is exactly 1 precisely
\* when 2*c' = T.
C4_AtMostOne ==
    times >= 2 =>
        \A k \in 1 .. Len(batches) : \A r \in BatchRows(batches[k]) : \A j \in Fsets :
            LET b == batches[k]
                cc == Corrected(b.counts[r][j], times)
                p == pvals[b.srt + r][j]
            IN  /\ 0 < cc /\ cc < times
                /\ p[1] <= p[2]
                /\ (p[1] = p[2]) <=> (2 * cc = times)
                /\ b.counts[r][j] = times => p[1] * times = 2 * p[2]

\* with times = 4 a written cell exceeded by exactly two permutations has p = 1
C4_Witness ==
    /\ times = 4 /\ Len(batches) >= 1
    /\ LET b == batches[Len(batches)] IN
          \E r \in BatchRows(b) : \E j \in Fsets :
             b.counts[r][j] = 2 /\ pvals[b.srt + r][j] = <<1, 1>>

\* this call and the previous one were given the same mat, kind and batch size
SameCall ==
    /\ off = prev.off /\ n_samples = prev.n_samples
    /\ sparse = prev.sparse /\ batch_size = prev.batch_size

\* C5: a call repeated with the same mat, net, seed, times and batch_size
\* returns the same estimate, norm, corr and pvals; a call with times > 1
\* starts from the buffer 0..n_features-1, and in every engine invocation
\* the generator stands where seed and the shuffles of this invocation put it.
C5_Reproducible ==
    /\ (times > 1 /\ pc \in {"loop", "dense"} /\ batches = <<>>) => idxs = Arange
    /\ pc = "perm" => rng = <<seed, perm_i>>
    /\ (run >= 2 /\ pc = "done" /\ SameCall) =>
          /\ estimate = prev.estimate
          /\ norm = prev.norm
          /\ corr = prev.corr
          /\ pvals = prev.pvals

\* a sparse call of two batches with times >= 3 was repeated and has finished
\* with a finite non-zero z-score
C5_Witness ==
    /\ run = 2 /\ pc = "done" /\ SameCall
    /\ times >= 3 /\ sparse /\ Len(batches) = 2
    /\ \E r \in DOMAIN norm : \E j \in Fsets : norm[r][j][1] = "fin" /\ norm[r][j][2] # 0

\* the index array obtained by reading a through ix: a[ix]
Through(a, ix) == [f \in Features |-> a[ix[f]]]

\* C6: on the sparse path with times >= 2 the index arrays a batch applies
\* are those of batch 0 read through the buffer the batch before it left,
\* so they depend on the batch's index; across two sparse calls on the same
\* mat a row gets the same counts, pvals, norm and corr whenever its batch
\* index is the same under both batch sizes.
C6_BatchDependent ==
    /\ (sparse /\ times >= 2) =>
          \A k \in 2 .. Len(batches) : \A t \in 1 .. times :
             batches[k].shuffled[t] =
                Through(batches[k - 1].shuffled[times], batches[1].shuffled[t])
    /\ (run >= 2 /\ pc = "done" /\ times >= 2 /\ sparse /\ prev.sparse
        /\ off = prev.off /\ n_samples = prev.n_samples) =>
          \A r \in 0 .. n_samples - 1 :
             (r \div batch_size = r \div prev.batch_size) =>
                /\ norm[r] = prev.norm[r]
                /\ corr[r] = prev.corr[r]
                /\ pvals[r] = prev.pvals[r]

\* the exceedance count of row r of a finished call whose log is bs
CountOf(bs, r, j) ==
    LET k == CHOOSE k \in 1 .. Len(bs) : bs[k].srt <= r /\ r < bs[k].end
    IN  bs[k].counts[r - bs[k].srt][j]

\* two sparse calls on the same mat with different batch sizes have given
\* one row different exceedance counts and different z-scores
C6_Witness ==
    /\ run = 2 /\ pc = "done" /\ times >= 2 /\ sparse /\ prev.sparse
    /\ off = prev.off /\ n_samples = prev.n_samples
    /\ batch_size # prev.batch_size
    /\ \E r \in 0 .. n_samples - 1 : \E j \in Fsets :
          /\ CountOf(batches, r, j) # CountOf(prev.batches, r, j)
          /\ norm[r][j] # prev.norm[r][j]

\* the previous call was sparse on the whole of M in more than one batch, and
\* this call is dense on the rows of one of its full batches
DenseBlockOfSparse ==
    /\ run >= 2 /\ pc = "done" /\ times >= 2
    /\ prev.sparse /\ prev.off = 0 /\ prev.batch_size < prev.n_samples
    /\ ~sparse /\ n_samples = prev.batch_size /\ off % prev.batch_size = 0

\* C7 as stated: a dense call on either block of batch_size rows returns the
\* estimate, norm, corr and pvals rows the sparse call returned for them.
C7_Original_BlocksReproduce ==
    DenseBlockOfSparse =>
        \A r \in 0 .. n_samples - 1 :
            /\ estimate[r] = prev.estimate[off + r]
            /\ norm[r] = prev.norm[off + r]
            /\ corr[r] = prev.corr[off + r]
            /\ pvals[r] = prev.pvals[off + r]

\* C7 amended: the dense call on a block reproduces the sparse call's
\* estimate rows; it applies the index arrays of the sparse call's batch 0,
\* whichever block it runs on, so it reproduces norm, corr and pvals for the
\* first block.
C7_FirstBlockReproduces ==
    DenseBlockOfSparse =>
        /\ \A r \in 0 .. n_samples - 1 : estimate[r] = prev.estimate[off + r]
        /\ batches[1].shuffled = prev.batches[1].shuffled
        /\ off = 0 =>
              \A r \in 0 .. n_samples - 1 :
                 /\ norm[r] = prev.norm[r]
                 /\ corr[r] = prev.corr[r]
                 /\ pvals[r] = prev.pvals[r]

\* a dense call on the second block has finished with a non-zero estimate,
\* having applied the index arrays of the sparse call's first batch, which
\* differ from those of its second batch
C7_Witness ==
    /\ DenseBlockOfSparse /\ off > 0
    /\ \E j \in Fsets : estimate[0][j] # 0
    /\ batches[1].shuffled # prev.batches[off \div prev.batch_size + 1].shuffled

\* the least m with m * b >= n
LeastCover(n, b) == CHOOSE m \in 0 .. n : m * b >= n /\ (m = 0 \/ (m - 1) * b < n)

\* C8: the sparse path writes batch k (from 0) on rows
\* [k*batch_size, min((k+1)*batch_size, n_samples)), in increasing order;
\* a finished call has run exactly ceil(n_samples/batch_size) batches, all
\* non-empty, which together hold every row exactly once; with
\* batch_size >= n_samples there is one batch.
C8_BatchPartition ==
    sparse =>
        /\ pc \in {"loop", "done"} => Len(batches) = i
        /\ \A k \in 1 .. Len(batches) :
              /\ batches[k].srt = (k - 1) * batch_size
              /\ batches[k].end = Min(k * batch_size, n_samples)
              /\ batches[k].srt < batches[k].end
        /\ \A k \in 1 .. Len(batches) - 1 : batches[k].end <= batches[k + 1].srt
        /\ pc = "done" =>
              /\ Len(batches) = LeastCover(n_samples, batch_size)
              /\ \A r \in 0 .. n_samples - 1 :
                    Cardinality({k \in 1 .. Len(batches) :
                                    batches[k].srt <= r /\ r < batches[k].end}) = 1
              /\ batch_size >= n_samples => Len(batches) = 1

\* a sparse call in one batch whose range was cut at n_samples has finished
\* after a sparse call of two batches
C8_Witness ==
    /\ run = 2 /\ pc = "done" /\ sparse
    /\ batch_size > n_samples /\ Len(batches) = 1
    /\ prev.sparse /\ Len(prev.batches) = 2

\* C9: when the loop of an engine invocation has ended, the variance handed
\* to the square root is non-negative in every cell, and it is 0 where all
\* permuted values of the cell are equal.
C9_VarianceNonNegative ==
    (pc = "perm" /\ perm_i >= times) =>
        \A r \in DOMAIN tmp : \A j \in Fsets :
            /\ Variance(sum_permuted[r][j], sum_squares_permuted[r][j], times) >= 0
            /\ (\A t \in 1 .. times :
                   PermutedAt(srt + r, j, shuffled[t]) = PermutedAt(srt + r, j, shuffled[1]))
               => Variance(sum_permuted[r][j], sum_squares_permuted[r][j], times) = 0

\* C10: with times >= 2 the index buffer is, from its allocation on, a
\* permutation of 0..n_features-1; within a call only an iteration of the
\* permutation loop changes it, so it goes from one batch to the next as the
\* last shuffle left it.
C10_IdxsPermutation ==
    /\ [](times >= 2 /\ pc # "start" => IsPermutation(idxs))
    /\ [][(idxs' # idxs /\ pc # "start" /\ pc' # "start")
             => pc = "perm" /\ pc' = "perm" /\ perm_i' = perm_i + 1]_vars

\* the second batch of a sparse call is shuffling a buffer that the first
\* batch left shuffled
C10_Witness ==
    /\ times >= 2 /\ sparse /\ pc = "perm" /\ perm_i >= 1
    /\ Len(batches) = 1 /\ batches[1].shuffled[times] # Arange
    /\ idxs # Arange /\ IsPermutation(idxs)

====
